---- MODULE Spec2Model ----
(***************************************************************************)
(* State-machine model of homebridge-sleepme-new: the read-through cache   *)
(* of device status (ReadThroughCache) and the throttled write queue       *)
(* (ApiQueue) that each accessory owns.                                    *)
(*                                                                         *)
(* Time is the value of Date.now() in units of 1000 ms.  A timeout runs in  *)
(* the tick of its deadline; remote calls take any time.                   *)
(* Temperatures are in tenths of a degree.                                 *)
(***************************************************************************)
EXTENDS Integers, Sequences, FiniteSets, TLC

\* ------------------------------------------------------------------ bounds
\* Accessories (one device, one ApiQueue and one ReadThroughCache each).
NumDevices == 2
\* Ticks of the clock explored after construction.
Horizon == 6
\* Remote status fetches started per cache.
MaxFetches == 2
\* get()/refresh() calls made by consumers per cache.
MaxCalls == 3
\* Values set through the setters per accessory.
MaxSets == 2
\* Consecutive failed fetches a cache has behind it when exploration starts.
MaxErrors == 9
\* Ticks of the clock explored with all accessories running together.
PlatformWindow == 1

Devices == 1..NumDevices

\* ------------------------------------------------------- program constants
\* ReadThroughCache: expirationMS = 1000 (constructor default).
expirationMS == 1
\* ReadThroughCache: Math.max(..., 5000), the backoff floor.
BackoffFloor == 5
\* ReadThroughCache: 60 * 1000 * 5, the backoff ceiling.
BackoffCeiling == 300

\* ApiQueue: intervalMs = 2000 (constructor default).
intervalMs == 2
\* ApiQueue: maxRetries = 3 (constructor default).
maxRetries == 3
\* ApiQueue: verificationDelayMs, as configured (verificationDelayMs = 5000;
\* the default is 30000).
verificationDelayMs == 5
\* ApiQueue.sendRequest: Math.min(1000 * Math.pow(2, retries), 10000).
RetryBaseMs == 1
RetryCapMs == 10
\* ApiQueue.verifyDeviceState: Math.abs(...) > 0.1, in tenths of a degree.
Tolerance == 1

\* ------------------------------------------------------------------ values
Modes == {"standby", "active"}
\* set_temperature_c values the remote device reports (10.0 and 20.0 degrees).
ReportedTempsC == {100, 200}
\* DeviceStatus, reduced to the two control fields the program compares; the
\* remote device answers with one of these.
Statuses ==
  {[thermal_control_status |-> "standby", set_temperature_c |-> 100],
   [thermal_control_status |-> "active", set_temperature_c |-> 200]}
\* undefined / null in place of a ClientResponse<DeviceStatus>.
Absent == [thermal_control_status |-> "absent", set_temperature_c |-> 0]
\* undefined in place of a Date, a timestamp or a timer handle.
NoTime == 0 - 1
\* QueueItemType.
Types == {"temperature", "state"}
\* Target temperatures HomeKit sets, in Celsius (10.0 and 20.5 degrees).
TempsC == {100, 205}
\* TargetHeatingCoolingState values HomeKit sets: validValues [OFF, AUTO].
StateValues == {0, 3}
\* undefined in place of targetTemperatureC.
NoTemp == 0 - 1
\* No QueueItem (null).
NoItem == [id |-> 0, type |-> "none", value |-> 0, timestamp |-> NoTime]
\* No DeviceDesiredState in the deviceStates map.  lastModified is written
\* and never read; it is left out.
NoState ==
  [targetTemperatureC |-> NoTemp, targetState |-> "undefined",
   verificationTimerId |-> NoTime]
\* The last step was not a call of enqueue by a setter.
OtherOp == [op |-> "other", id |-> 0, type |-> "none", value |-> 0,
            idle |-> FALSE, replaced |-> FALSE, status |-> Absent]
\* How a getDeviceStatus call can fail: an AxiosError carrying an HTTP status,
\* or any other Error.
FailKinds == {"http", "general"}
\* err.response?.status of the "http" failure kind; undefined otherwise.
NoCode == 0
HttpErrorCode == 500

VARIABLES
  now,               \* Date.now()
  lastOp,            \* the call the last step made, when a setter's enqueue
  apiQueue,          \* the ApiQueue of each accessory, its runner and timers
  verifying,         \* promises awaited by running verifyDeviceState calls
  sets,              \* number of setter calls made so far, per accessory
  remote,            \* what the gateway last accepted, per device
  value,             \* ReadThroughCache.value, per device
  request,           \* ReadThroughCache.request: promise id, 0 = undefined
  responseTimestamp, \* ReadThroughCache.responseTimestamp
  responseExpireAt,  \* ReadThroughCache.responseExpireAt
  errorCount,        \* ReadThroughCache.errorCount
  lastErrorCode,     \* ReadThroughCache.lastErrorCode
  lastErrorMessage,  \* ReadThroughCache.lastErrorMessage ("" = undefined)
  fetches,           \* the promises created by get(): one per getDeviceStatus
  lastSettled,       \* id of the promise settled most recently, 0 = none
  calls              \* get()/refresh() calls made by consumers, per device

cacheVars ==
  <<value, request, responseTimestamp, responseExpireAt, errorCount, lastErrorCode,
    lastErrorMessage, fetches, lastSettled, calls>>
queueVars == <<apiQueue, verifying, sets, remote>>
vars == <<now, lastOp, cacheVars, queueVars>>

\* The clock when the plugin starts: Date.now() lies more than intervalMs
\* beyond the 0 that lastProcessTime is constructed with.
StartTime == intervalMs

\* ------------------------------------------------------- ReadThroughCache
\* The promise get() stores in this.request, before the remote call returns.
NewFetch ==
  [state |-> "pending", ok |-> FALSE, result |-> Absent]

\* A get() that starts a fetch whenever it cannot serve from the cache,
\* whether or not one is in flight.
CacheGetNoJoin(val, exp, req, fl, t) ==
  IF val # Absent /\ exp # NoTime /\ t < exp
  THEN [request |-> req, fetches |-> fl, promise |-> 0, imm |-> val]
  ELSE [request |-> Len(fl) + 1, fetches |-> Append(fl, NewFetch),
        promise |-> Len(fl) + 1, imm |-> Absent]

\* A get() that serves the cached value whatever its expiry.
CacheGetNeverExpires(val, exp, req, fl, t) ==
  IF val # Absent
  THEN [request |-> req, fetches |-> fl, promise |-> 0, imm |-> val]
  ELSE IF req # 0
  THEN [request |-> req, fetches |-> fl, promise |-> req, imm |-> Absent]
  ELSE [request |-> Len(fl) + 1, fetches |-> Append(fl, NewFetch),
        promise |-> Len(fl) + 1, imm |-> Absent]

\* get(): what it returns and what it leaves in this.request, given the
\* fields it reads.  promise = 0 stands for Promise.resolve(imm).
CacheGet(val, exp, req, fl, t) ==
  IF val # Absent /\ exp # NoTime /\ t < exp
  THEN [request |-> req, fetches |-> fl, promise |-> 0, imm |-> val]
  ELSE IF req # 0
  THEN [request |-> req, fetches |-> fl, promise |-> req, imm |-> Absent]
  ELSE [request |-> Len(fl) + 1, fetches |-> Append(fl, NewFetch),
        promise |-> Len(fl) + 1, imm |-> Absent]

\* The first declaration of refresh(): join the request in flight, else
\* invalidate the expiry and get().
RefreshFirst(val, exp, req, fl, t) ==
  IF req # 0
  THEN [request |-> req, fetches |-> fl, promise |-> req, imm |-> Absent,
        responseExpireAt |-> exp]
  ELSE [responseExpireAt |-> NoTime] @@ CacheGet(val, NoTime, req, fl, t)

\* The second declaration of refresh(): drop the request, invalidate the
\* expiry and get().
RefreshSecond(val, exp, req, fl, t) ==
  [responseExpireAt |-> NoTime] @@ CacheGet(val, NoTime, 0, fl, t)

\* The class body declares refresh() twice; which declaration a call runs
\* is left open (def is 1 or 2).
RefreshDefs == {1, 2}
CacheRefresh(def, val, exp, req, fl, t) ==
  IF def = 1
  THEN RefreshFirst(val, exp, req, fl, t)
  ELSE RefreshSecond(val, exp, req, fl, t)

\* Math.min(Math.max(Math.pow(2, errorCount) * expirationMS, 5000), 300000)
RECURSIVE Pow2(_)
Pow2(n) == IF n = 0 THEN 1 ELSE 2 * Pow2(n - 1)
Max(a, b) == IF a >= b THEN a ELSE b
Min(a, b) == IF a <= b THEN a ELSE b
\* A backoff that is the doubled TTL itself, without floor or ceiling.
backoffDurationUnclamped(n) == Pow2(n) * expirationMS

backoffDuration(n) ==
  Min(Max(Pow2(n) * expirationMS, BackoffFloor), BackoffCeiling)

CallRecord(op, r) ==
  [op |-> op, promise |-> r.promise, imm |-> r.imm]

Settled(f) == f.state # "pending"

Pending(d) == {p \in 1..Len(fetches[d]) : fetches[d][p].state = "pending"}

\* ---------------------------------------------------------------- ApiQueue
\* The queue is a Map: iteration is in insertion order, and set() on a key
\* that is present replaces the value in place.
SameKey(a, b) == a.id = b.id /\ a.type = b.type

MapHas(q, item) == \E i \in DOMAIN q : SameKey(q[i], item)

\* A map whose set() adds an entry whether or not the key is present.
MapSetAppends(q, item) == Append(q, item)

\* A map whose set() keeps the value already present under the key.
MapSetKeepsFirst(q, item) ==
  IF MapHas(q, item) THEN q ELSE Append(q, item)

\* A map whose set() on a present key stores the new value under the
\* timestamp of the entry it replaces.
MapSetKeepsTimestamp(q, item) ==
  IF MapHas(q, item)
  THEN [i \in DOMAIN q |->
          IF SameKey(q[i], item)
          THEN [item EXCEPT !.timestamp = q[i].timestamp]
          ELSE q[i]]
  ELSE Append(q, item)

MapSet(q, item) ==
  IF MapHas(q, item)
  THEN [i \in DOMAIN q |-> IF SameKey(q[i], item) THEN item ELSE q[i]]
  ELSE Append(q, item)

IsOtherKey(e, item) == ~SameKey(e, item)

MapDelete(q, item) ==
  LET Keep(e) == IsOtherKey(e, item) IN SelectSeq(q, Keep)

\* getOldestItem(): the first item, in iteration order, whose timestamp is
\* strictly below every earlier one's.
getOldestItem(q) ==
  IF q = <<>> THEN NoItem
  ELSE q[CHOOSE i \in DOMAIN q :
           \A j \in DOMAIN q :
             /\ q[i].timestamp <= q[j].timestamp
             /\ (j < i => q[j].timestamp > q[i].timestamp)]

\* An updateDesiredState() that records temperatures only.
updateDesiredStateTemperatureOnly(state, type, v) ==
  IF type = "temperature"
  THEN [state EXCEPT !.targetTemperatureC = v]
  ELSE state

\* updateDesiredState(): the entry of the deviceStates map after the call.
updateDesiredState(state, type, v) ==
  IF type = "temperature"
  THEN [state EXCEPT !.targetTemperatureC = v]
  ELSE [state EXCEPT !.targetState = IF v = 0 THEN "standby" ELSE "active"]

RemoveFirst(seq, x) ==
  IF \E i \in DOMAIN seq : seq[i] = x
  THEN LET k == CHOOSE i \in DOMAIN seq :
                  seq[i] = x /\ \A j \in DOMAIN seq : seq[j] = x => i <= j
       IN SubSeq(seq, 1, k - 1) \o SubSeq(seq, k + 1, Len(seq))
  ELSE seq

\* A scheduleVerification() that sets its timeout without clearing the one
\* already scheduled.
scheduleVerificationNoClear(Q) ==
  IF Q.deviceStates = NoState THEN Q
  ELSE [Q EXCEPT
          !.timers = Append(@, now + verificationDelayMs),
          !.deviceStates.verificationTimerId = now + verificationDelayMs]

\* scheduleVerification(): clearTimeout of the stored handle, then a new
\* timeout verificationDelayMs from now.  A handle is its deadline.
scheduleVerification(Q) ==
  IF Q.deviceStates = NoState THEN Q
  ELSE LET id == Q.deviceStates.verificationTimerId
           cleared == IF id # NoTime THEN RemoveFirst(Q.timers, id)
                      ELSE Q.timers
       IN [Q EXCEPT
             !.timers = Append(cleared, now + verificationDelayMs),
             !.deviceStates.verificationTimerId = now + verificationDelayMs]

\* A dispatch that sends the oldest item and leaves it in the map.
DispatchKeepsItem(Q) ==
  LET oldestItem == getOldestItem(Q.queue)
  IN IF oldestItem = NoItem
     THEN [Q EXCEPT !.processing = FALSE, !.pc = "idle"]
     ELSE [Q EXCEPT !.current = oldestItem,
                    !.retries = 0,
                    !.pc = "send",
                    !.wakeAt = NoTime,
                    !.lastCallAt = now]

\* processQueue() from the interval gate on (lines 528-539): take the oldest
\* item out of the map and issue sendRequest's first gateway call.
Dispatch(Q) ==
  LET oldestItem == getOldestItem(Q.queue)
  IN IF oldestItem = NoItem
     THEN [Q EXCEPT !.processing = FALSE, !.pc = "idle"]
     ELSE [Q EXCEPT !.queue = MapDelete(@, oldestItem),
                    !.current = oldestItem,
                    !.retries = 0,
                    !.pc = "send",
                    !.wakeAt = NoTime,
                    !.lastCallAt = now]

timeToWait(Q) == Max(0, intervalMs - (now - Q.lastProcessTime))

\* A processQueue that returns on an empty queue without clearing the flag.
processQueueKeepsFlag(Q) ==
  IF Q.queue = <<>>
  THEN [Q EXCEPT !.pc = "idle"]
  ELSE IF timeToWait(Q) > 0
  THEN [Q EXCEPT !.processing = TRUE, !.pc = "wait",
                 !.wakeAt = now + timeToWait(Q)]
  ELSE Dispatch([Q EXCEPT !.processing = TRUE])

\* processQueue() up to its first await.
processQueue(Q) ==
  IF Q.queue = <<>>
  THEN [Q EXCEPT !.processing = FALSE, !.pc = "idle"]
  ELSE IF timeToWait(Q) > 0
  THEN [Q EXCEPT !.processing = TRUE, !.pc = "wait",
                 !.wakeAt = now + timeToWait(Q)]
  ELSE Dispatch([Q EXCEPT !.processing = TRUE])

\* An enqueue that stores the item and never starts the runner.
enqueueNoStart(Q, d, type, v) ==
  LET queueItem == [id |-> d, type |-> type, value |-> v, timestamp |-> now]
      Q1 == [Q EXCEPT !.queue = MapSet(@, queueItem)]
      Q2 == [Q1 EXCEPT
               !.deviceStates = updateDesiredState(@, type, v)]
  IN scheduleVerification(Q2)

\* enqueue(deviceId, type, value), all of it: the map insert, the desired
\* state, the verification timer and, when no runner is active, the runner's
\* first synchronous stretch.
enqueue(Q, d, type, v) ==
  LET queueItem == [id |-> d, type |-> type, value |-> v, timestamp |-> now]
      Q1 == [Q EXCEPT !.queue = MapSet(@, queueItem)]
      Q2 == [Q1 EXCEPT
               !.deviceStates = updateDesiredState(@, type, v)]
      Q3 == scheduleVerification(Q2)
  IN IF ~Q3.processing THEN processQueue(Q3) ELSE Q3

\* const tempF = Math.floor((item.value * (9 / 5)) + 32), value in tenths.
tempF(c) == (c * 9 + 1600) \div 50

\* The gateway before any write: nothing accepted.
NoRemote == [set_temperature_f |-> NoTemp, thermal_control_status |-> "undefined"]

\* The gateway after it accepted sendRequest's call for item: a PATCH of
\* set_temperature_f with tempF, or of thermal_control_status with the mode.
Accept(r, item) ==
  IF item.type = "temperature"
  THEN [r EXCEPT !.set_temperature_f = tempF(item.value)]
  ELSE [r EXCEPT !.thermal_control_status =
                   IF item.value = 0 THEN "standby" ELSE "active"]

\* Math.round(((tempF - 32) * 5/9) * 10) / 10, in tenths of a degree.
fahrenheitToCelsius(f) == ((f - 32) * 100 + 9) \div 18

Abs(x) == IF x < 0 THEN 0 - x ELSE x

\* The mode a state item's value stands for (item.value === 0 ? 'standby' :
\* 'active').
targetStateOf(v) == IF v = 0 THEN "standby" ELSE "active"

\* A verification that compares the temperature only.
VerifyCompareTemperatureOnly(Q, d, actualState) ==
  IF /\ Q.deviceStates.targetTemperatureC # NoTemp
     /\ (IF actualState.set_temperature_c >= Q.deviceStates.targetTemperatureC
         THEN actualState.set_temperature_c - Q.deviceStates.targetTemperatureC
         ELSE Q.deviceStates.targetTemperatureC - actualState.set_temperature_c)
          > Tolerance
  THEN [Q EXCEPT !.queue = Append(@, [id |-> d, type |-> "temperature",
                                      value |-> Q.deviceStates.targetTemperatureC,
                                      timestamp |-> now])]
  ELSE Q

\* A verification that re-enqueues every field that is set, whether or not
\* it matches.
VerifyCompareAlways(Q, d, actualState) ==
  LET Q1 == IF Q.deviceStates.targetTemperatureC # NoTemp
            THEN enqueue(Q, d, "temperature", Q.deviceStates.targetTemperatureC)
            ELSE Q
  IN IF Q1.deviceStates.targetState # "undefined"
     THEN enqueue(Q1, d, "state",
                  IF Q1.deviceStates.targetState = "standby" THEN 0 ELSE 1)
     ELSE Q1

\* A verification that re-enqueues the mode with the two values swapped:
\* standby as 1, active as 0.
VerifyCompareSwapsMode(Q, d, actualState) ==
  LET tempMismatch ==
        /\ Q.deviceStates.targetTemperatureC # NoTemp
        /\ Abs(actualState.set_temperature_c
               - Q.deviceStates.targetTemperatureC) > Tolerance
      Q1 == IF tempMismatch
            THEN enqueue(Q, d, "temperature", Q.deviceStates.targetTemperatureC)
            ELSE Q
      stateMismatch ==
        /\ Q1.deviceStates.targetState # "undefined"
        /\ actualState.thermal_control_status # Q1.deviceStates.targetState
      stateValue == IF Q1.deviceStates.targetState = "standby" THEN 1 ELSE 0
  IN IF stateMismatch THEN enqueue(Q1, d, "state", stateValue) ELSE Q1

\* A verification whose re-enqueue schedules no further verification: it
\* reconciles once and stops.
VerifyCompareNoReschedule(Q, d, actualState) ==
  LET Requeue(R, type, v) ==
        LET R1 == [R EXCEPT !.queue =
                     MapSet(@, [id |-> d, type |-> type, value |-> v,
                                timestamp |-> now])]
        IN IF ~R1.processing THEN processQueue(R1) ELSE R1
      tempMismatch ==
        /\ Q.deviceStates.targetTemperatureC # NoTemp
        /\ Abs(actualState.set_temperature_c
               - Q.deviceStates.targetTemperatureC) > Tolerance
      Q1 == IF tempMismatch
            THEN Requeue(Q, "temperature", Q.deviceStates.targetTemperatureC)
            ELSE Q
      stateMismatch ==
        /\ Q1.deviceStates.targetState # "undefined"
        /\ actualState.thermal_control_status # Q1.deviceStates.targetState
      stateValue == IF Q1.deviceStates.targetState = "standby" THEN 0 ELSE 1
  IN IF stateMismatch THEN Requeue(Q1, "state", stateValue) ELSE Q1

\* verifyDeviceState() after cache.refresh() answered with a status: compare
\* both fields with the desired state and re-enqueue what mismatches.
VerifyCompare(Q, d, actualState) ==
  LET tempMismatch ==
        /\ Q.deviceStates.targetTemperatureC # NoTemp
        /\ Abs(actualState.set_temperature_c
               - Q.deviceStates.targetTemperatureC) > Tolerance
      Q1 == IF tempMismatch
            THEN enqueue(Q, d, "temperature", Q.deviceStates.targetTemperatureC)
            ELSE Q
      stateMismatch ==
        /\ Q1.deviceStates.targetState # "undefined"
        /\ actualState.thermal_control_status # Q1.deviceStates.targetState
      stateValue == IF Q1.deviceStates.targetState = "standby" THEN 0 ELSE 1
  IN IF stateMismatch THEN enqueue(Q1, d, "state", stateValue) ELSE Q1

\* A verifyDeviceState that compares whatever the refresh resolved with,
\* null included.
VerifyResumeComparesAbsent(Q, d, f) ==
  IF f.state = "rejected" THEN Q
  ELSE VerifyCompare(Q, d, f.result)

\* verifyDeviceState() from the point where the awaited promise f settled.
VerifyResume(Q, d, f) ==
  IF f.state = "rejected" THEN Q
  ELSE IF f.result = Absent THEN Q
  ELSE VerifyCompare(Q, d, f.result)

\* What a verifyDeviceState call that resumed on the settled promise f
\* compared its desired state with: the status it obtained, if any.
VerifyOp(d, f) ==
  IF f.state = "fulfilled" /\ f.result # Absent
  THEN [OtherOp EXCEPT !.op = "verify", !.id = d, !.status = f.result]
  ELSE OtherOp

\* The n verifyDeviceState calls awaiting one promise resume in turn.
RECURSIVE ResumeAll(_, _, _, _)
ResumeAll(Q, d, f, n) ==
  IF n = 0 THEN Q ELSE ResumeAll(VerifyResume(Q, d, f), d, f, n - 1)

Awaiting(d, p) == Len(SelectSeq(verifying[d], LAMBDA x : x = p))

\* ------------------------------------------------------- consumers' calls
\* A consumer calls get().
Get(d) ==
  /\ Len(calls[d]) < MaxCalls
  /\ LET r == CacheGet(value[d], responseExpireAt[d], request[d],
                       fetches[d], now)
     IN /\ Len(r.fetches) <= MaxFetches
        /\ request' = [request EXCEPT ![d] = r.request]
        /\ fetches' = [fetches EXCEPT ![d] = r.fetches]
        /\ calls' = [calls EXCEPT ![d] = Append(@, CallRecord("get", r))]
  /\ lastOp' = OtherOp
  /\ UNCHANGED <<now, value, responseTimestamp, responseExpireAt,
                 errorCount, lastErrorCode, lastErrorMessage, lastSettled,
                 queueVars>>

\* A consumer calls refresh().
Refresh(d) ==
  /\ Len(calls[d]) < MaxCalls
  /\ \E def \in RefreshDefs :
     LET r == CacheRefresh(def, value[d], responseExpireAt[d], request[d],
                           fetches[d], now)
     IN /\ Len(r.fetches) <= MaxFetches
        /\ request' = [request EXCEPT ![d] = r.request]
        /\ fetches' = [fetches EXCEPT ![d] = r.fetches]
        /\ responseExpireAt' =
             [responseExpireAt EXCEPT ![d] = r.responseExpireAt]
        /\ calls' =
             [calls EXCEPT ![d] = Append(@, CallRecord("refresh", r))]
  /\ lastOp' = OtherOp
  /\ UNCHANGED <<now, value, responseTimestamp, errorCount, lastErrorCode,
                 lastErrorMessage, lastSettled, queueVars>>

\* What a setter's call of enqueue(d, type, v) found: no runner active
\* (idle), and an item pending under its key (replaced).
EnqueueOp(d, type, v) ==
  [op |-> "enqueue", id |-> d, type |-> type, value |-> v,
   idle |-> ~apiQueue[d].processing,
   replaced |-> MapHas(apiQueue[d].queue, [id |-> d, type |-> type]),
   status |-> Absent]

\* HomeKit sets TargetTemperature: setTargetTemp enqueues the Celsius value.
setTargetTemp(d) ==
  /\ sets[d] < MaxSets
  /\ sets' = [sets EXCEPT ![d] = @ + 1]
  /\ \E v \in TempsC :
       /\ apiQueue' = [apiQueue EXCEPT ![d] = enqueue(@, d, "temperature", v)]
       /\ lastOp' = EnqueueOp(d, "temperature", v)
  /\ UNCHANGED <<now, cacheVars, verifying, remote>>

\* HomeKit sets TargetHeatingCoolingState: setTargetState enqueues the value.
setTargetState(d) ==
  /\ sets[d] < MaxSets
  /\ sets' = [sets EXCEPT ![d] = @ + 1]
  /\ \E v \in StateValues :
       /\ apiQueue' = [apiQueue EXCEPT ![d] = enqueue(@, d, "state", v)]
       /\ lastOp' = EnqueueOp(d, "state", v)
  /\ UNCHANGED <<now, cacheVars, verifying, remote>>

\* ---------------------------------------------------------- the runner
\* The interval gate's timeout fires: processQueue goes on to dispatch.
WaitDone(d) ==
  /\ apiQueue[d].pc = "wait"
  /\ now >= apiQueue[d].wakeAt
  /\ apiQueue' = [apiQueue EXCEPT ![d] = Dispatch(@)]
  /\ lastOp' = OtherOp
  /\ UNCHANGED <<now, cacheVars, verifying, sets, remote>>

\* The gateway call resolves: sendRequest returns, processQueue stamps
\* lastProcessTime and defers its next run with setImmediate.
SendSucceed(d) ==
  /\ apiQueue[d].pc = "send"
  /\ apiQueue' = [apiQueue EXCEPT ![d].lastProcessTime = now,
                                  ![d].pc = "immediate",
                                  ![d].current = NoItem,
                                  ![d].retries = 0]
  /\ remote' = [remote EXCEPT ![d] = Accept(@, apiQueue[d].current)]
  /\ lastOp' = OtherOp
  /\ UNCHANGED <<now, cacheVars, verifying, sets>>

backoffMs(retries) == Min(RetryBaseMs * Pow2(retries), RetryCapMs)

\* A processQueue without its try/catch: the error sendRequest throws when
\* the retries are exhausted leaves processQueue uncaught and ends the run.
AfterFailureUncaught(Q, retries) ==
  IF retries < maxRetries
  THEN [Q EXCEPT !.retries = retries, !.pc = "backoff",
                 !.wakeAt = now + backoffMs(retries)]
  ELSE [Q EXCEPT !.retries = 0, !.pc = "idle", !.current = NoItem,
                 !.error = "uncaught"]

\* A runner that puts the item back in the queue once its retries are
\* exhausted.
AfterFailureRequeues(Q, retries) ==
  IF retries < maxRetries
  THEN [Q EXCEPT !.retries = retries, !.pc = "backoff",
                 !.wakeAt = now + backoffMs(retries)]
  ELSE [Q EXCEPT !.retries = 0, !.pc = "immediate",
                 !.queue = MapSet(@, Q.current), !.current = NoItem,
                 !.error = "caught"]

\* sendRequest's catch block and what follows it, with the item in flight
\* failed for the retries-th time: after the last one the error sendRequest
\* throws is caught (and logged) by processQueue.
AfterFailure(Q, retries) ==
  IF retries < maxRetries
  THEN [Q EXCEPT !.retries = retries, !.pc = "backoff",
                 !.wakeAt = now + backoffMs(retries)]
  ELSE [Q EXCEPT !.retries = 0, !.pc = "immediate", !.current = NoItem,
                 !.error = "caught"]

\* The gateway call rejects.
SendFail(d) ==
  /\ apiQueue[d].pc = "send"
  /\ apiQueue' =
       [apiQueue EXCEPT ![d] = AfterFailure(@, apiQueue[d].retries + 1)]
  /\ lastOp' = OtherOp
  /\ UNCHANGED <<now, cacheVars, verifying, sets, remote>>

\* The retry backoff's timeout fires: sendRequest issues the call again.
BackoffDone(d) ==
  /\ apiQueue[d].pc = "backoff"
  /\ now >= apiQueue[d].wakeAt
  /\ apiQueue' = [apiQueue EXCEPT ![d].pc = "send", ![d].wakeAt = NoTime,
                                  ![d].lastCallAt = now]
  /\ lastOp' = OtherOp
  /\ UNCHANGED <<now, cacheVars, verifying, sets, remote>>

\* The setImmediate callback runs processQueue again.
Immediate(d) ==
  /\ apiQueue[d].pc = "immediate"
  /\ apiQueue' =
       [apiQueue EXCEPT ![d] = processQueue([@ EXCEPT !.error = "none"])]
  /\ lastOp' = OtherOp
  /\ UNCHANGED <<now, cacheVars, verifying, sets, remote>>

\* ------------------------------------------------------------ verification
\* A verifyDeviceState that looks for the desired state only, and not for a
\* registered cache.
SkipsVerificationStateOnly(Q) == Q.deviceStates = NoState

\* verifyDeviceState() returns early, before any refresh, when the device has
\* no desired state or no cache registered.
SkipsVerification(Q) == Q.deviceStates = NoState \/ ~Q.cachesById

\* A verification timeout fires: verifyDeviceState runs up to its await of
\* cache.refresh(), and beyond it when the promise it gets is settled.
VerifyTimer(d) ==
  /\ \E i \in DOMAIN apiQueue[d].timers, def \in RefreshDefs :
       /\ apiQueue[d].timers[i] <= now
       /\ LET Q0 == [apiQueue[d] EXCEPT
                       !.timers = SubSeq(@, 1, i - 1)
                                    \o SubSeq(@, i + 1, Len(@))]
              Q1 == IF Q0.deviceStates = NoState THEN Q0
                    ELSE [Q0 EXCEPT !.deviceStates.verificationTimerId = NoTime]
              r == CacheRefresh(def, value[d], responseExpireAt[d], request[d],
                                fetches[d], now)
          IN IF SkipsVerification(Q0)
             THEN /\ apiQueue' = [apiQueue EXCEPT ![d] = Q1]
                  /\ lastOp' = OtherOp
                  /\ UNCHANGED <<request, fetches, responseExpireAt,
                                 verifying>>
             ELSE /\ Len(r.fetches) <= MaxFetches
                  /\ request' = [request EXCEPT ![d] = r.request]
                  /\ fetches' = [fetches EXCEPT ![d] = r.fetches]
                  /\ responseExpireAt' =
                       [responseExpireAt EXCEPT ![d] = r.responseExpireAt]
                  /\ IF Settled(r.fetches[r.promise])
                     THEN /\ apiQueue' =
                               [apiQueue EXCEPT
                                  ![d] = VerifyResume(Q1, d,
                                                      r.fetches[r.promise])]
                          /\ verifying' = verifying
                          /\ lastOp' = VerifyOp(d, r.fetches[r.promise])
                     ELSE /\ apiQueue' = [apiQueue EXCEPT ![d] = Q1]
                          /\ verifying' =
                               [verifying EXCEPT ![d] = Append(@, r.promise)]
                          /\ lastOp' = OtherOp
  /\ UNCHANGED <<now, value, responseTimestamp, errorCount, lastErrorCode,
                 lastErrorMessage, lastSettled, calls, sets, remote>>

\* --------------------------------------------------- the remote's answers
Settle(p, ok, st, res) ==
  [p EXCEPT !.state = st, !.ok = ok, !.result = res]

\* A .then handler that leaves the error fields as they are.
ThenHandlerKeepsErrors(d, p, s) ==
  /\ value' = [value EXCEPT ![d] = s]
  /\ responseTimestamp' = [responseTimestamp EXCEPT ![d] = now]
  /\ responseExpireAt' = [responseExpireAt EXCEPT ![d] = now + expirationMS]
  /\ request' = [request EXCEPT ![d] = 0]
  /\ UNCHANGED <<errorCount, lastErrorCode, lastErrorMessage>>
  /\ fetches' =
       [fetches EXCEPT ![d][p] = Settle(@, TRUE, "fulfilled", s)]
  /\ lastSettled' = [lastSettled EXCEPT ![d] = p]

\* The cache fields after the .then handler of promise p ran on response s.
ThenHandler(d, p, s) ==
  /\ value' = [value EXCEPT ![d] = s]
  /\ responseTimestamp' = [responseTimestamp EXCEPT ![d] = now]
  /\ responseExpireAt' = [responseExpireAt EXCEPT ![d] = now + expirationMS]
  /\ request' = [request EXCEPT ![d] = 0]
  /\ errorCount' = [errorCount EXCEPT ![d] = 0]
  /\ lastErrorCode' = [lastErrorCode EXCEPT ![d] = NoCode]
  /\ lastErrorMessage' = [lastErrorMessage EXCEPT ![d] = ""]
  /\ fetches' =
       [fetches EXCEPT ![d][p] = Settle(@, TRUE, "fulfilled", s)]
  /\ lastSettled' = [lastSettled EXCEPT ![d] = p]

\* A .catch handler that drops the cached value.
CatchHandlerClears(d, p, kind) ==
  /\ errorCount' = [errorCount EXCEPT ![d] = @ + 1]
  /\ lastErrorCode' =
       [lastErrorCode EXCEPT ![d] = IF kind = "http" THEN HttpErrorCode ELSE @]
  /\ lastErrorMessage' =
       [lastErrorMessage EXCEPT
          ![d] = IF kind = "http" THEN "API Error" ELSE "General error"]
  /\ request' = [request EXCEPT ![d] = 0]
  /\ responseExpireAt' = responseExpireAt
  /\ fetches' =
       [fetches EXCEPT ![d][p] = Settle(@, FALSE, "fulfilled", Absent)]
  /\ value' = [value EXCEPT ![d] = Absent]
  /\ responseTimestamp' = responseTimestamp
  /\ lastSettled' = [lastSettled EXCEPT ![d] = p]

\* The .catch handler when axios resolves: it records the error, and either
\* keeps serving the previous value with an extended expiry (leaving
\* this.request as it is) or clears this.request and answers null.
CatchHandler(d, p, kind) ==
  /\ errorCount' = [errorCount EXCEPT ![d] = @ + 1]
  /\ lastErrorCode' =
       [lastErrorCode EXCEPT ![d] = IF kind = "http" THEN HttpErrorCode ELSE @]
  /\ lastErrorMessage' =
       [lastErrorMessage EXCEPT
          ![d] = IF kind = "http" THEN "API Error" ELSE "General error"]
  /\ IF value[d] # Absent
     THEN /\ responseExpireAt' =
               [responseExpireAt EXCEPT
                  ![d] = now + backoffDuration(errorCount[d] + 1)]
          /\ request' = request
     ELSE /\ request' = [request EXCEPT ![d] = 0]
          /\ responseExpireAt' = responseExpireAt
  /\ fetches' =
       [fetches EXCEPT ![d][p] = Settle(@, FALSE, "fulfilled", value[d])]
  /\ value' = value
  /\ responseTimestamp' = responseTimestamp
  /\ lastSettled' = [lastSettled EXCEPT ![d] = p]

\* The .catch handler when axios does not resolve (the module imports only
\* the type AxiosError): errorCount is incremented, then axios.isAxiosError
\* raises a ReferenceError and the promise rejects.
CatchHandlerThrows(d, p) ==
  /\ errorCount' = [errorCount EXCEPT ![d] = @ + 1]
  /\ fetches' =
       [fetches EXCEPT ![d][p] = Settle(@, FALSE, "rejected", Absent)]
  /\ lastSettled' = [lastSettled EXCEPT ![d] = p]
  /\ UNCHANGED <<value, request, responseTimestamp, responseExpireAt,
                 lastErrorCode, lastErrorMessage>>

\* The verifyDeviceState calls awaiting promise p resume once it settled.
ResumeVerifications(d, p) ==
  /\ apiQueue' =
       [apiQueue EXCEPT
          ![d] = ResumeAll(@, d, fetches'[d][p], Awaiting(d, p))]
  /\ verifying' =
       [verifying EXCEPT ![d] = SelectSeq(@, LAMBDA x : x # p)]
  /\ lastOp' = IF Awaiting(d, p) > 0 THEN VerifyOp(d, fetches'[d][p])
               ELSE OtherOp
  /\ sets' = sets
  /\ remote' = remote

\* getLastError() and hasError(): the error state consumers query.
getLastError(d) ==
  [code |-> lastErrorCode[d], message |-> lastErrorMessage[d],
   count |-> errorCount[d]]

hasError(d) == errorCount[d] > 0

\* client.getDeviceStatus resolves with status s.
FetchSucceed(d) ==
  /\ \E p \in Pending(d), s \in Statuses :
       /\ ThenHandler(d, p, s)
       /\ ResumeVerifications(d, p)
  /\ UNCHANGED <<now, calls>>

\* client.getDeviceStatus rejects.
FetchFail(d) ==
  /\ \E p \in Pending(d), kind \in FailKinds, axiosBound \in BOOLEAN :
       /\ IF axiosBound THEN CatchHandler(d, p, kind)
          ELSE CatchHandlerThrows(d, p)
       /\ ResumeVerifications(d, p)
  /\ UNCHANGED <<now, calls>>

\* lastCallAt, the time of the last gateway write call, is kept while the
\* call is less than intervalMs old.
AgeCall(Q, t) ==
  IF Q.lastCallAt # NoTime /\ t - Q.lastCallAt >= intervalMs
  THEN [Q EXCEPT !.lastCallAt = NoTime] ELSE Q

\* A timeout that is due, or a pending setImmediate callback: it runs before
\* the clock's next tick.
Due(Q) ==
  \/ Q.pc \in {"wait", "backoff"} /\ Q.wakeAt <= now
  \/ Q.pc = "immediate"
  \/ \E i \in DOMAIN Q.timers : Q.timers[i] <= now

Tick ==
  /\ now < StartTime + Horizon
  /\ \A d \in Devices : ~Due(apiQueue[d])
  /\ now' = now + 1
  /\ apiQueue' = [d \in Devices |-> AgeCall(apiQueue[d], now + 1)]
  /\ lastOp' = OtherOp
  /\ UNCHANGED <<cacheVars, verifying, sets, remote>>

\* The ApiQueue as constructed, with the accessory's cache registered
\* (createThermostatService calls registerCache before it creates setters).
NewApiQueue ==
  [queue |-> <<>>, processing |-> FALSE, lastProcessTime |-> 0,
   deviceStates |-> NoState, cachesById |-> TRUE,
   timers |-> <<>>,
   pc |-> "idle", wakeAt |-> NoTime, current |-> NoItem, retries |-> 0,
   lastCallAt |-> NoTime, error |-> "none"]

Init ==
  /\ now = StartTime
  /\ lastOp = OtherOp
  /\ value = [d \in Devices |-> Absent]
  /\ request = [d \in Devices |-> 0]
  /\ responseTimestamp = [d \in Devices |-> NoTime]
  /\ responseExpireAt = [d \in Devices |-> NoTime]
  /\ errorCount = [d \in Devices |-> 0]
  /\ lastErrorCode = [d \in Devices |-> NoCode]
  /\ lastErrorMessage = [d \in Devices |-> ""]
  /\ fetches = [d \in Devices |-> <<>>]
  /\ lastSettled = [d \in Devices |-> 0]
  /\ calls = [d \in Devices |-> <<>>]
  /\ apiQueue = [d \in Devices |-> NewApiQueue]
  /\ verifying = [d \in Devices |-> <<>>]
  /\ sets = [d \in Devices |-> 0]
  /\ remote = [d \in Devices |-> NoRemote]

\* One cache and its consumers.
NextCache ==
  \/ Get(1)
  \/ Refresh(1)
  \/ FetchSucceed(1)
  \/ FetchFail(1)
  \/ Tick

SpecCache == Init /\ [][NextCache]_vars

\* One accessory: its setters, its queue's runner and verification, and the
\* remote's answers to the status fetches verification starts.
Next ==
  \/ setTargetTemp(1)
  \/ setTargetState(1)
  \/ WaitDone(1)
  \/ SendSucceed(1)
  \/ SendFail(1)
  \/ BackoffDone(1)
  \/ Immediate(1)
  \/ VerifyTimer(1)
  \/ FetchSucceed(1)
  \/ FetchFail(1)
  \/ Tick

Spec == Init /\ [][Next]_vars

\* The platform with an accessory per device, each constructed with an
\* ApiQueue of its own: the setters and the runners of all of them, over the
\* instant in which HomeKit writes to the accessories (no timer fires).
NextPlatform ==
  \/ \E d \in Devices :
       \/ setTargetTemp(d)
       \/ setTargetState(d)
       \/ SendSucceed(d)
       \/ SendFail(d)
       \/ Immediate(d)

SpecPlatform == Init /\ [][NextPlatform]_vars

\* An ApiQueue used as constructed, before any registerCache call: its
\* cachesById map is empty.
InitUnregistered ==
  /\ now = StartTime
  /\ lastOp = OtherOp
  /\ value = [d \in Devices |-> Absent]
  /\ request = [d \in Devices |-> 0]
  /\ responseTimestamp = [d \in Devices |-> NoTime]
  /\ responseExpireAt = [d \in Devices |-> NoTime]
  /\ errorCount = [d \in Devices |-> 0]
  /\ lastErrorCode = [d \in Devices |-> NoCode]
  /\ lastErrorMessage = [d \in Devices |-> ""]
  /\ fetches = [d \in Devices |-> <<>>]
  /\ lastSettled = [d \in Devices |-> 0]
  /\ calls = [d \in Devices |-> <<>>]
  /\ apiQueue = [d \in Devices |-> [NewApiQueue EXCEPT !.cachesById = FALSE]]
  /\ verifying = [d \in Devices |-> <<>>]
  /\ sets = [d \in Devices |-> 0]
  /\ remote = [d \in Devices |-> NoRemote]

NextUnregistered ==
  \/ setTargetTemp(1)
  \/ setTargetState(1)
  \/ WaitDone(1)
  \/ SendSucceed(1)
  \/ SendFail(1)
  \/ BackoffDone(1)
  \/ Immediate(1)
  \/ VerifyTimer(1)
  \/ Tick

SpecUnregistered == InitUnregistered /\ [][NextUnregistered]_vars

\* A cache that holds a value, has any number of consecutive failed fetches
\* behind it, and has a fetch in flight (started by a refresh() that dropped
\* the request and the expiry): the promises of the earlier fetches are left
\* out.
InitBackoff ==
  /\ now = StartTime
  /\ lastOp = OtherOp
  /\ value = [d \in Devices |->
                CHOOSE s \in Statuses : s.thermal_control_status = "standby"]
  /\ request = [d \in Devices |-> 1]
  /\ responseTimestamp = [d \in Devices |-> 0]
  /\ responseExpireAt = [d \in Devices |-> NoTime]
  /\ errorCount \in [Devices -> 0..MaxErrors]
  /\ lastErrorCode =
       [d \in Devices |-> IF errorCount[d] = 0 THEN NoCode ELSE HttpErrorCode]
  /\ lastErrorMessage =
       [d \in Devices |-> IF errorCount[d] = 0 THEN "" ELSE "API Error"]
  /\ fetches = [d \in Devices |-> <<NewFetch>>]
  /\ lastSettled = [d \in Devices |-> 0]
  /\ calls = [d \in Devices |-> <<[op |-> "refresh", promise |-> 1,
                                   imm |-> Absent]>>]
  /\ apiQueue = [d \in Devices |-> NewApiQueue]
  /\ verifying = [d \in Devices |-> <<>>]
  /\ sets = [d \in Devices |-> 0]
  /\ remote = [d \in Devices |-> NoRemote]
  /\ \A d \in Devices : d # 1 => errorCount[d] = 0

SpecBackoff == InitBackoff /\ [][NextCache]_vars

\* The platform's accessories over the first PlatformWindow ticks after
\* construction (no interval gate or verification timeout is due that
\* early): the setters and runners of all accessories, and the clock.
NextPlatformTimed ==
  \/ \E d \in Devices :
       \/ setTargetTemp(d)
       \/ setTargetState(d)
       \/ SendSucceed(d)
       \/ SendFail(d)
       \/ Immediate(d)
  \/ now < StartTime + PlatformWindow /\ Tick

SpecPlatformTimed == Init /\ [][NextPlatformTimed]_vars

\* One accessory whose cache is also read by a consumer (the characteristic
\* getters call get() on the cache the queue verifies with), with a gateway
\* that accepts every write.
NextShared ==
  \/ setTargetTemp(1)
  \/ WaitDone(1)
  \/ SendSucceed(1)
  \/ Immediate(1)
  \/ VerifyTimer(1)
  \/ Get(1)
  \/ FetchSucceed(1)
  \/ FetchFail(1)
  \/ Tick

SpecShared == Init /\ [][NextShared]_vars

\* A step of the event loop or of the world around it: a timer or callback
\* that is due runs, a remote call is answered, the clock advances.
Progress ==
  \/ WaitDone(1)
  \/ BackoffDone(1)
  \/ Immediate(1)
  \/ VerifyTimer(1)
  \/ SendSucceed(1)
  \/ SendFail(1)
  \/ FetchSucceed(1)
  \/ FetchFail(1)
  \/ Tick

\* The event loop never stops while it has something to run.
Fairness == WF_vars(Progress)

FairSpec == Init /\ [][Next]_vars /\ Fairness

\* One accessory whose mode alone is set through HomeKit.
NextMode ==
  \/ setTargetState(1)
  \/ Progress

FairSpecMode == Init /\ [][NextMode]_vars /\ Fairness

\* An accessory at the moment a verification is due: values were enqueued
\* verificationDelayMs ago, their writes were accepted, the queue is idle
\* and the consumer stays silent from here on.
InitReconcile ==
  /\ now = StartTime
  /\ lastOp = OtherOp
  /\ value = [d \in Devices |-> Absent]
  /\ request = [d \in Devices |-> 0]
  /\ responseTimestamp = [d \in Devices |-> NoTime]
  /\ responseExpireAt = [d \in Devices |-> NoTime]
  /\ errorCount = [d \in Devices |-> 0]
  /\ lastErrorCode = [d \in Devices |-> NoCode]
  /\ lastErrorMessage = [d \in Devices |-> ""]
  /\ fetches = [d \in Devices |-> <<>>]
  /\ lastSettled = [d \in Devices |-> 0]
  /\ calls = [d \in Devices |-> <<>>]
  /\ \E t \in TempsC \cup {NoTemp}, m \in Modes \cup {"undefined"} :
       /\ t # NoTemp \/ m # "undefined"
       /\ apiQueue =
            [d \in Devices |->
               IF d = 1
               THEN [NewApiQueue EXCEPT
                       !.deviceStates =
                          [targetTemperatureC |-> t, targetState |-> m,
                           verificationTimerId |-> StartTime],
                       !.timers = <<StartTime>>,
                       !.lastProcessTime = StartTime - verificationDelayMs]
               ELSE NewApiQueue]
       /\ remote =
            [d \in Devices |->
               IF d = 1
               THEN [set_temperature_f |->
                       IF t = NoTemp THEN NoTemp ELSE tempF(t),
                     thermal_control_status |-> m]
               ELSE NoRemote]
  /\ verifying = [d \in Devices |-> <<>>]
  /\ sets = [d \in Devices |-> 0]

SpecReconcile == InitReconcile /\ [][Progress]_vars

\* An accessory whose runner is busy when the clock starts: one tick
\* earlier HomeKit set a temperature and then a mode, the interval gate held
\* both back, and the gate has just let the temperature out; the mode is
\* pending.  The two values are 20.5 degrees and standby.
InitPending ==
  /\ now = StartTime
  /\ lastOp = OtherOp
  /\ value = [d \in Devices |-> Absent]
  /\ request = [d \in Devices |-> 0]
  /\ responseTimestamp = [d \in Devices |-> NoTime]
  /\ responseExpireAt = [d \in Devices |-> NoTime]
  /\ errorCount = [d \in Devices |-> 0]
  /\ lastErrorCode = [d \in Devices |-> NoCode]
  /\ lastErrorMessage = [d \in Devices |-> ""]
  /\ fetches = [d \in Devices |-> <<>>]
  /\ lastSettled = [d \in Devices |-> 0]
  /\ calls = [d \in Devices |-> <<>>]
  /\ \E t \in {205}, v \in {0} :
       apiQueue =
         [d \in Devices |->
            IF d = 1
            THEN [NewApiQueue EXCEPT
                    !.queue = <<[id |-> 1, type |-> "state", value |-> v,
                                 timestamp |-> StartTime - 1]>>,
                    !.processing = TRUE,
                    !.pc = "send",
                    !.current = [id |-> 1, type |-> "temperature",
                                 value |-> t, timestamp |-> StartTime - 1],
                    !.lastCallAt = StartTime,
                    !.deviceStates =
                       [targetTemperatureC |-> t,
                        targetState |-> targetStateOf(v),
                        verificationTimerId |->
                          StartTime - 1 + verificationDelayMs],
                    !.timers = <<StartTime - 1 + verificationDelayMs>>]
            ELSE NewApiQueue]
  /\ remote = [d \in Devices |-> NoRemote]
  /\ verifying = [d \in Devices |-> <<>>]
  /\ sets = [d \in Devices |-> 0]

\* The consumer, the runner and the verifications of that accessory, every
\* status fetch answered.
NextPending ==
  \/ setTargetTemp(1)
  \/ setTargetState(1)
  \/ WaitDone(1)
  \/ SendSucceed(1)
  \/ SendFail(1)
  \/ BackoffDone(1)
  \/ Immediate(1)
  \/ VerifyTimer(1)
  \/ FetchSucceed(1)
  \/ Tick

SpecPending == InitPending /\ [][NextPending]_vars

\* ------------------------------------------------------------- properties
\* C1: the pending set of a queue holds at most one item per (device, field)
\* key, and an enqueue that finds an item pending under its key leaves that
\* key's one item carrying the new value and the time of the call.
C1_OnePendingItemPerKey ==
  \A d \in Devices :
    LET q == apiQueue[d].queue
    IN /\ \A i, j \in DOMAIN q : SameKey(q[i], q[j]) => i = j
       /\ (lastOp.op = "enqueue" /\ lastOp.id = d /\ lastOp.replaced)
            => \E i \in DOMAIN q :
                 /\ SameKey(q[i], lastOp)
                 /\ q[i].value = lastOp.value
                 /\ q[i].timestamp = now

\* A setter's enqueue has just replaced the item pending under its key.
C1_Witness ==
  /\ lastOp.op = "enqueue"
  /\ lastOp.replaced
  /\ Len(apiQueue[lastOp.id].queue) >= 1

\* C2: when enqueue(d, f, v1) on an idle queue is followed at once by
\* enqueue(d, f, v2), v1 is never handed to the gateway: after the second
\* call the item in flight is not the first call's.
C2_FirstOfPairNeverSent ==
  [][\A d \in Devices :
       (/\ lastOp.op = "enqueue" /\ lastOp.id = d /\ lastOp.idle
        /\ lastOp'.op = "enqueue" /\ lastOp'.id = d
        /\ lastOp'.type = lastOp.type
        /\ lastOp'.value # lastOp.value)
       => ~(/\ apiQueue'[d].pc = "send"
            /\ apiQueue'[d].current.type = lastOp.type
            /\ apiQueue'[d].current.value = lastOp.value)]_vars

\* C3: a dispatch issues its gateway call only when the previous gateway
\* call of the queue is at least intervalMs old, however the previous
\* dispatch ended.
C3_DispatchSpacing ==
  [][\A d \in Devices :
       (apiQueue'[d].pc = "send" /\ apiQueue[d].pc \notin {"send", "backoff"})
       => apiQueue[d].lastCallAt = NoTime]_vars

\* C4: at most one gateway write is outstanding at a time across all devices.
C4_OneWriteOutstanding ==
  Cardinality({d \in Devices : apiQueue[d].pc = "send"}) <= 1

\* Every call made on d's cache so far is a get().
OnlyGets(d) == \A i \in DOMAIN calls[d] : calls[d][i].op = "get"

\* The step is a call of get() on d's cache.
GetStep(d) ==
  /\ Len(calls'[d]) = Len(calls[d]) + 1
  /\ calls'[d][Len(calls'[d])].op = "get"

\* The fetch that settled last on d's cache succeeded.
LastFetchSucceeded(d) ==
  lastSettled[d] # 0 /\ fetches[d][lastSettled[d]].ok

\* C5: the get() calls that arrive while no value is cached and before the
\* first fetch completes start exactly one remote fetch, and every one of
\* them holds that fetch's promise.
C5_GetsShareOneFetch ==
  \A d \in Devices :
    (/\ calls[d] # <<>>
     /\ OnlyGets(d)
     /\ \A p \in DOMAIN fetches[d] : ~Settled(fetches[d][p]))
    => /\ Len(fetches[d]) = 1
       /\ \A i \in DOMAIN calls[d] : calls[d][i].promise = 1

\* Three get() calls wait on the first fetch, which is still in flight.
C5_Witness ==
  /\ Len(calls[1]) >= 3
  /\ OnlyGets(1)
  /\ Len(fetches[1]) = 1
  /\ ~Settled(fetches[1][1])
  /\ \A i \in DOMAIN calls[1] : calls[1][i].promise = 1

\* C6: at most one remote fetch per device is outstanding, whatever the
\* interleaving of get() and refresh() calls.
C6_OneFetchOutstanding ==
  \A d \in Devices : Cardinality(Pending(d)) <= 1

\* C7: after a fetch succeeded at time T (responseTimestamp), a get() before
\* T + expirationMS returns the cached value and starts no fetch, and a get()
\* at or after T + expirationMS with no fetch in flight starts a new fetch
\* (consumers calling get() only).
C7_TtlCorrectness ==
  [][\A d \in Devices :
       (GetStep(d) /\ OnlyGets(d) /\ LastFetchSucceeded(d))
       => LET T == responseTimestamp[d]
              c == calls'[d][Len(calls'[d])]
          IN /\ now < T + expirationMS
                  => /\ c.promise = 0
                     /\ c.imm = value[d]
                     /\ fetches'[d] = fetches[d]
             /\ (now >= T + expirationMS /\ Pending(d) = {})
                  => /\ Len(fetches'[d]) = Len(fetches[d]) + 1
                     /\ c.promise = Len(fetches'[d])
                     /\ ~Settled(fetches'[d][c.promise])]_vars

\* After the first fetch succeeded, one get() was served from the cache and a
\* later one, past the expiry, started the second fetch.
C7_Witness ==
  /\ OnlyGets(1)
  /\ Len(fetches[1]) >= 2
  /\ fetches[1][1].ok
  /\ \E i, j \in DOMAIN calls[1] :
       /\ i < j
       /\ calls[1][i].promise = 0
       /\ calls[1][i].imm # Absent
       /\ calls[1][j].promise = 2

\* C8: the cached value changes only in a step in which a fetch succeeds, to
\* that fetch's response, and once a value is cached the cache never goes
\* back to holding none.
C8_ValueChangesOnSuccessOnly ==
  [][\A d \in Devices :
       /\ value'[d] # value[d]
            => \E p \in Pending(d) :
                 /\ fetches'[d][p].state = "fulfilled"
                 /\ fetches'[d][p].ok
                 /\ fetches'[d][p].result = value'[d]
       /\ value[d] # Absent => value'[d] # Absent]_vars

\* A fetch failed while a value was cached, and the value is still there.
C8_Witness ==
  /\ value[1] # Absent
  /\ lastSettled[1] # 0
  /\ ~fetches[1][lastSettled[1]].ok
  /\ Settled(fetches[1][lastSettled[1]])

\* C9: a fetch that fails while a value is cached adds one to errorCount and
\* completes the get() with the cached value, and until the extended expiry
\* every get() returns that value without a fetch.
C9_FailureServesStaleValue ==
  [][\A d \in Devices :
       /\ \A p \in Pending(d) :
            (/\ Settled(fetches'[d][p])
             /\ ~fetches'[d][p].ok
             /\ value[d] # Absent)
            => /\ errorCount'[d] = errorCount[d] + 1
               /\ fetches'[d][p].state = "fulfilled"
               /\ fetches'[d][p].result = value[d]
               /\ responseExpireAt'[d] > now
       /\ (/\ GetStep(d)
           /\ lastSettled[d] # 0
           /\ ~fetches[d][lastSettled[d]].ok
           /\ value[d] # Absent
           /\ responseExpireAt[d] # NoTime
           /\ now < responseExpireAt[d])
          => /\ calls'[d][Len(calls'[d])].promise = 0
             /\ calls'[d][Len(calls'[d])].imm = value[d]
             /\ fetches'[d] = fetches[d]]_vars

\* C10: the promise of a get() never rejects; it resolves with a value, or
\* with none only when the fetch failed and no value was cached.
C10_GetNeverRejects ==
  \A d \in Devices : \A p \in DOMAIN fetches[d] :
    /\ fetches[d][p].state # "rejected"
    /\ (fetches[d][p].state = "fulfilled" /\ fetches[d][p].result = Absent)
         => ~fetches[d][p].ok

\* The explored clock has stopped: the horizon is reached, or a verification
\* that is due cannot start the fetch it needs within the fetch bound.
ClockStopped ==
  \/ now >= StartTime + Horizon
  \/ \E d \in Devices :
       /\ \E i \in DOMAIN apiQueue[d].timers : apiQueue[d].timers[i] <= now
       /\ Len(fetches[d]) >= MaxFetches

\* A verification of d has just compared a status whose mode differs from
\* the desired mode.
VerifiedModeMismatch(d) ==
  /\ lastOp.op = "verify"
  /\ lastOp.id = d
  /\ apiQueue[d].deviceStates.targetState # "undefined"
  /\ lastOp.status.thermal_control_status
       # apiQueue[d].deviceStates.targetState

\* A state item carrying d's desired mode is pending with a runner active,
\* or is the item in flight.
DesiredModeQueued(d) ==
  LET Q == apiQueue[d]
      Wanted(item) ==
        /\ item.type = "state"
        /\ targetStateOf(item.value) = Q.deviceStates.targetState
  IN \/ Q.processing /\ \E i \in DOMAIN Q.queue : Wanted(Q.queue[i])
     \/ Q.pc = "send" /\ Wanted(Q.current)

\* C11: a verification that obtains a status whose mode differs from the
\* desired mode re-enqueues the desired mode, and a state item is then
\* dispatched to the gateway (within the explored clock).
C11_VerificationReconciles ==
  /\ [](\A d \in Devices : VerifiedModeMismatch(d) => DesiredModeQueued(d))
  /\ \A d \in Devices :
       VerifiedModeMismatch(d)
         ~> (\/ apiQueue[d].pc = "send" /\ apiQueue[d].current.type = "state"
             \/ ClockStopped)

\* A mode write succeeded, the verification that followed found the other
\* mode reported, and the desired mode is in flight again.
C11_Witness ==
  /\ VerifiedModeMismatch(1)
  /\ apiQueue[1].lastProcessTime > 0
  /\ apiQueue[1].deviceStates.targetTemperatureC = NoTemp
  /\ apiQueue[1].pc = "send"
  /\ apiQueue[1].current.type = "state"
  /\ targetStateOf(apiQueue[1].current.value)
       = apiQueue[1].deviceStates.targetState

\* The temperature items d's queue holds, pending or in flight.
TemperatureItems(Q) ==
  {Q.queue[i] : i \in {j \in DOMAIN Q.queue : Q.queue[j].type = "temperature"}}
    \cup (IF Q.pc \in {"send", "backoff"} /\ Q.current.type = "temperature"
          THEN {Q.current} ELSE {})

\* C12: when the gateway accepted the write of the desired temperature and
\* the status obtained at verification reports the Celsius equivalent of the
\* Fahrenheit value sent, the verification enqueues no temperature item.
C12_ConvergenceNoReenqueue ==
  [][\A d \in Devices :
       LET want == apiQueue[d].deviceStates.targetTemperatureC
       IN (/\ lastOp'.op = "verify"
           /\ lastOp'.id = d
           /\ want # NoTemp
           /\ remote[d].set_temperature_f = tempF(want)
           /\ lastOp'.status.set_temperature_c
                = fahrenheitToCelsius(tempF(want)))
          => TemperatureItems(apiQueue'[d]) \subseteq
               TemperatureItems(apiQueue[d])]_vars

\* C13: enqueue returns without waiting for a gateway call (a setter's call
\* made while a gateway call is outstanding returns with that call still
\* outstanding, and no setter step completes a gateway call), and the error
\* of a write whose retries are exhausted is caught inside the queue, never
\* reaching the caller.
C13_EnqueueFireAndForget ==
  /\ [](\A d \in Devices : apiQueue[d].error # "uncaught")
  /\ [][\A d \in Devices :
          (lastOp'.op = "enqueue" /\ lastOp'.id = d)
          => /\ remote'[d] = remote[d]
             /\ apiQueue'[d].lastProcessTime = apiQueue[d].lastProcessTime
             /\ apiQueue'[d].error = apiQueue[d].error
             /\ apiQueue[d].pc = "send"
                  => /\ apiQueue'[d].pc = "send"
                     /\ apiQueue'[d].current = apiQueue[d].current
                     /\ apiQueue'[d].retries = apiQueue[d].retries]_vars

\* A setter's enqueue has returned while a retry of the write in flight is
\* outstanding at the gateway.
C13_Witness ==
  /\ lastOp.op = "enqueue"
  /\ ~lastOp.idle
  /\ apiQueue[1].pc = "send"
  /\ apiQueue[1].retries >= 1

\* The step in which the write in flight fails for the last time.
Exhausts(d) ==
  /\ apiQueue[d].pc = "send"
  /\ apiQueue'[d].pc = "immediate"
  /\ apiQueue'[d].error = "caught"

\* The step in which the loop runs again after an exhausted write.
ContinuesAfterExhaustion(d) ==
  /\ apiQueue[d].pc = "immediate"
  /\ apiQueue[d].error = "caught"
  /\ apiQueue'[d].pc # "immediate"

\* C14: the step that exhausts an item's retries leaves the queue as it is
\* (the item is not put back: its key has a pending item only if an enqueue
\* made one meanwhile) with no item in flight; the loop's next run
\* dispatches the oldest pending item, at once or after the interval gate,
\* and stops only on an empty queue; pending items always have a live loop.
C14_ExhaustedItemDropped ==
  /\ [](\A d \in Devices :
          /\ apiQueue[d].queue # <<>> => apiQueue[d].processing
          /\ apiQueue[d].processing => apiQueue[d].pc # "idle")
  /\ [][\A d \in Devices :
          /\ Exhausts(d)
               => /\ apiQueue'[d].queue = apiQueue[d].queue
                  /\ apiQueue'[d].current = NoItem
          /\ ContinuesAfterExhaustion(d)
               => IF apiQueue[d].queue = <<>>
                  THEN apiQueue'[d].pc = "idle"
                  ELSE \/ /\ apiQueue'[d].pc = "send"
                          /\ apiQueue'[d].current
                               = getOldestItem(apiQueue[d].queue)
                       \/ /\ apiQueue'[d].pc = "wait"
                          /\ apiQueue'[d].queue = apiQueue[d].queue]_vars

\* A write has just exhausted its retries while another item is pending.
C14_Witness ==
  /\ apiQueue[1].pc = "immediate"
  /\ apiQueue[1].error = "caught"
  /\ apiQueue[1].current = NoItem
  /\ apiQueue[1].queue # <<>>

\* The step in which the gateway accepts the write in flight.
Succeeds(d) ==
  /\ apiQueue[d].pc = "send"
  /\ apiQueue'[d].pc = "immediate"
  /\ apiQueue'[d].error = "none"

\* The item carries the value enqueued last for its field, and the gateway
\* now holds what sendRequest sends for that value.
SentLastEnqueued(Q, r, item) ==
  IF item.type = "temperature"
  THEN /\ item.value = Q.deviceStates.targetTemperatureC
       /\ r.set_temperature_f = tempF(Q.deviceStates.targetTemperatureC)
  ELSE /\ targetStateOf(item.value) = Q.deviceStates.targetState
       /\ r.thermal_control_status = Q.deviceStates.targetState

\* C15: per key the writes go out in enqueue order (an item pending under the
\* key of the item in flight was enqueued no earlier than it, and there is at
\* most one), and every write the gateway accepts either carries the value
\* enqueued last for its key or leaves a later enqueue of the key pending: the
\* last accepted write of a key carries the last value enqueued.
C15_LastWriteWins ==
  /\ [](\A d \in Devices : \A i \in DOMAIN apiQueue[d].queue :
          /\ SameKey(apiQueue[d].queue[i], apiQueue[d].current)
               => apiQueue[d].queue[i].timestamp
                    >= apiQueue[d].current.timestamp
          /\ \A j \in DOMAIN apiQueue[d].queue :
               SameKey(apiQueue[d].queue[i], apiQueue[d].queue[j]) => i = j)
  /\ [][\A d \in Devices :
          Succeeds(d)
          => \/ MapHas(apiQueue'[d].queue, apiQueue[d].current)
             \/ SentLastEnqueued(apiQueue'[d], remote'[d],
                                 apiQueue[d].current)]_vars

\* Two temperatures were enqueued, the enqueues have stopped, and the gateway
\* has just accepted the write that leaves nothing pending.
C15_Witness ==
  /\ sets[1] = MaxSets
  /\ apiQueue[1].deviceStates.targetState = "undefined"
  /\ apiQueue[1].pc = "immediate"
  /\ apiQueue[1].error = "none"
  /\ apiQueue[1].queue = <<>>
  /\ apiQueue[1].lastProcessTime > StartTime
  /\ remote[1].set_temperature_f
       = tempF(apiQueue[1].deviceStates.targetTemperatureC)

\* C16: a device has at most one verification timeout scheduled, the one its
\* desired state holds the handle of; every enqueue (a setter's or a
\* verification's) replaces it with one verificationDelayMs from now; and a
\* timeout goes away only by firing at its deadline.  So a burst of enqueues
\* is followed by one verification, verificationDelayMs after its last call.
C16_VerificationDebounced ==
  /\ [](\A d \in Devices :
          /\ Len(apiQueue[d].timers) <= 1
          /\ apiQueue[d].timers =
               IF apiQueue[d].deviceStates.verificationTimerId = NoTime
               THEN <<>>
               ELSE <<apiQueue[d].deviceStates.verificationTimerId>>)
  /\ [][\A d \in Devices :
          /\ (lastOp'.op = "enqueue" /\ lastOp'.id = d)
               => apiQueue'[d].timers = <<now + verificationDelayMs>>
          /\ apiQueue'[d].timers # apiQueue[d].timers
               => /\ now' = now
                  /\ \/ apiQueue'[d].timers = <<now + verificationDelayMs>>
                     \/ /\ apiQueue[d].timers = <<now>>
                        /\ apiQueue'[d].timers = <<>>]_vars

\* Two enqueues less than verificationDelayMs apart (the first one's item
\* still in flight, the second one's pending), and the one verification run
\* they led to has started verificationDelayMs after the second.
C16_Witness ==
  /\ apiQueue[1].pc = "send"
  /\ apiQueue[1].queue # <<>>
  /\ apiQueue[1].current.timestamp < apiQueue[1].queue[1].timestamp
  /\ apiQueue[1].queue[1].timestamp - apiQueue[1].current.timestamp
       < verificationDelayMs
  /\ now = apiQueue[1].queue[1].timestamp + verificationDelayMs
  /\ apiQueue[1].timers = <<>>
  /\ Len(fetches[1]) = 1

\* The step in which a verification timeout fires.
VerificationRuns(d) ==
  /\ apiQueue[d].timers = <<now>>
  /\ apiQueue'[d].timers # apiQueue[d].timers
  /\ lastOp'.op # "enqueue"

\* C17: with no cache registered, a verification that runs starts no fetch
\* and awaits none, and leaves the queue, the runner and the desired values
\* as they are (no re-enqueue, no new timeout); a setter's enqueue still
\* starts the runner, and pending items always have a live runner.
C17_NoCacheSkipsVerification ==
  /\ [](\A d \in Devices :
          /\ fetches[d] = <<>>
          /\ request[d] = 0
          /\ verifying[d] = <<>>
          /\ apiQueue[d].queue # <<>>
               => apiQueue[d].pc \in {"wait", "send", "backoff", "immediate"})
  /\ [][\A d \in Devices :
          /\ VerificationRuns(d)
               => apiQueue'[d] =
                    [apiQueue[d] EXCEPT
                       !.timers = <<>>,
                       !.deviceStates.verificationTimerId = NoTime]
          /\ (lastOp'.op = "enqueue" /\ lastOp'.id = d /\ lastOp'.idle)
               => apiQueue'[d].pc \in {"wait", "send"}]_vars

\* The verification of an enqueued write has run without a cache, and the
\* gateway has accepted the write.
C17_Witness ==
  /\ ~apiQueue[1].cachesById
  /\ apiQueue[1].deviceStates # NoState
  /\ apiQueue[1].deviceStates.verificationTimerId = NoTime
  /\ apiQueue[1].timers = <<>>
  /\ remote[1] # NoRemote

\* The step is a call of refresh() on d's cache.
RefreshStep(d) ==
  /\ Len(calls'[d]) = Len(calls[d]) + 1
  /\ calls'[d][Len(calls'[d])].op = "refresh"

Clamp(x, lo, hi) == IF x < lo THEN lo ELSE IF x > hi THEN hi ELSE x

\* The step in which fetch p of d's cache fails and is answered with the
\* cached value.
FailsWithValue(d, p) ==
  /\ ~Settled(fetches[d][p])
  /\ fetches'[d][p].state = "fulfilled"
  /\ ~fetches'[d][p].ok
  /\ value[d] # Absent

Completing(d) == {p \in Pending(d) : Settled(fetches'[d][p])}

\* C22: the consecutive count changes only when a fetch completes: a failed
\* fetch adds one, a successful fetch resets it to 0 and clears the last code
\* and message; so it counts the failures completed since the last success,
\* and hasError() is true exactly when the fetch completed last failed.
C22_ErrorStateTracksOutcomes ==
  /\ [](\A d \in Devices :
          /\ getLastError(d).count >= 0
          /\ hasError(d) <=> (lastSettled[d] # 0 /\ ~LastFetchSucceeded(d)))
  /\ [][\A d \in Devices :
          /\ Completing(d) = {} => getLastError(d)' = getLastError(d)
          /\ \A p \in Completing(d) :
               IF fetches'[d][p].ok
               THEN getLastError(d)' =
                      [code |-> NoCode, message |-> "", count |-> 0]
               ELSE getLastError(d).count' = getLastError(d).count + 1]_vars

\* Two fetches in a row have failed: the count is 2 and hasError() is true.
C22_Witness ==
  /\ getLastError(1).count = 2
  /\ hasError(1)
  /\ Len(fetches[1]) = 2
  /\ \A p \in DOMAIN fetches[1] : Settled(fetches[1][p]) /\ ~fetches[1][p].ok

\* The step in which d's runner takes an item out of its queue and issues
\* the item's first gateway call.
Dispatches(d) ==
  /\ apiQueue'[d].pc = "send"
  /\ apiQueue[d].pc \notin {"send", "backoff"}

\* C23: the item a dispatch takes is no younger than any item left pending,
\* on whatever device and field.
C23_OldestFirst ==
  [][\A d \in Devices :
       Dispatches(d)
       => \A e \in Devices : \A i \in DOMAIN apiQueue'[e].queue :
            apiQueue'[e].queue[i].timestamp
              >= apiQueue'[d].current.timestamp]_vars

\* A write of d is in flight: its gateway call or one of its retries is
\* outstanding, or the runner is backing off between two of them.
InFlight(d) == apiQueue[d].pc \in {"send", "backoff"}

\* An item of the given type and value is pending in d's queue.
PendingValue(d, type, v) ==
  \E i \in DOMAIN apiQueue[d].queue :
    apiQueue[d].queue[i].type = type /\ apiQueue[d].queue[i].value = v

\* The values a pending mode item can carry: the ones HomeKit sets, and the
\* 1 a verification re-enqueues for 'active'.
QueuedStateValues == StateValues \cup {1}

\* C24: a dispatch leaves no item under the key it takes (a pending item of
\* the key in flight was enqueued no earlier than it); an enqueue for the
\* key of the item in flight leaves the send as it is and makes a pending
\* item carrying its
\* value; a pending item is not dispatched while a write is in flight, and
\* (on the accessory that runs) it is dispatched later unless an enqueue
\* replaces it first.
C24_InFlightNotCancelled ==
  /\ [](\A d \in Devices :
          InFlight(d)
          => /\ apiQueue[d].current # NoItem
             /\ \A i \in DOMAIN apiQueue[d].queue :
                  SameKey(apiQueue[d].queue[i], apiQueue[d].current)
                  => apiQueue[d].queue[i].timestamp
                       >= apiQueue[d].current.timestamp)
  /\ [][\A d \in Devices :
          /\ Dispatches(d)
               => ~MapHas(apiQueue'[d].queue, apiQueue'[d].current)
          /\ (/\ InFlight(d)
              /\ lastOp'.op = "enqueue" /\ lastOp'.id = d
              /\ lastOp'.type = apiQueue[d].current.type)
               => /\ apiQueue'[d].current = apiQueue[d].current
                  /\ apiQueue'[d].pc = apiQueue[d].pc
                  /\ apiQueue'[d].retries = apiQueue[d].retries
                  /\ apiQueue'[d].wakeAt = apiQueue[d].wakeAt
                  /\ \E i \in DOMAIN apiQueue'[d].queue :
                       apiQueue'[d].queue[i] =
                         [id |-> d, type |-> lastOp'.type,
                          value |-> lastOp'.value, timestamp |-> now]
          /\ InFlight(d) /\ InFlight(d)'
               => apiQueue'[d].current = apiQueue[d].current]_vars
  /\ \A v \in QueuedStateValues :
       PendingValue(1, "state", v)
         ~> \/ /\ apiQueue[1].pc = "send"
               /\ apiQueue[1].current.type = "state"
               /\ apiQueue[1].current.value = v
            \/ \E w \in QueuedStateValues :
                 w # v /\ PendingValue(1, "state", w)
            \/ ClockStopped

\* A mode was enqueued while a retry of the previous mode's write is
\* outstanding: the one is pending, the other still in flight.
C24_Witness ==
  /\ apiQueue[1].pc = "send"
  /\ apiQueue[1].retries >= 1
  /\ apiQueue[1].current.type = "state"
  /\ \E i \in DOMAIN apiQueue[1].queue :
       /\ SameKey(apiQueue[1].queue[i], apiQueue[1].current)
       /\ apiQueue[1].queue[i].value # apiQueue[1].current.value

\* The gateway calls made so far for the item in flight, the outstanding one
\* included.
AttemptsMade(d) == apiQueue[d].retries + 1

\* C25: a write is given up as a permanent failure only when maxRetries
\* retries have followed its first failed call, that is when maxRetries + 1
\* gateway calls were made for the item.
C25_RetriesAfterFirstFailure ==
  [][\A d \in Devices :
       Exhausts(d) => AttemptsMade(d) = maxRetries + 1]_vars

\* The step in which the call in flight fails and the runner starts to wait
\* for its next retry.
BacksOff(d) ==
  /\ apiQueue[d].pc = "send"
  /\ apiQueue'[d].pc = "backoff"

\* C26: the wait before the k-th retry of a dispatch is
\* min(1000 * 2^(k-1), 10000) ms: 1 s, 2 s, 4 s, ...
C26_RetryDelayDoubles ==
  [][\A d \in Devices :
       BacksOff(d)
       => LET k == apiQueue'[d].retries
          IN apiQueue'[d].wakeAt - now
               = Min(RetryBaseMs * Pow2(k - 1), RetryCapMs)]_vars

\* The pending item agrees with the desired state of its field.
AgreesWithDesired(item, state) ==
  IF item.type = "temperature"
  THEN item.value = state.targetTemperatureC
  ELSE state.targetState = (IF item.value = 0 THEN "standby" ELSE "active")

\* C27: when a setter's enqueue(d, f, v) returns, the desired state of d
\* holds v for field f (a mode value 0 as standby, any other as active) and
\* its other field is as before; and every pending item agrees with the
\* desired state of its device and field.
C27_DesiredStateInStep ==
  /\ [](\A d \in Devices : \A i \in DOMAIN apiQueue[d].queue :
          AgreesWithDesired(apiQueue[d].queue[i], apiQueue[d].deviceStates))
  /\ [][\A d \in Devices :
          (lastOp'.op = "enqueue" /\ lastOp'.id = d)
          => IF lastOp'.type = "temperature"
             THEN /\ apiQueue'[d].deviceStates.targetTemperatureC
                       = lastOp'.value
                  /\ apiQueue'[d].deviceStates.targetState
                       = apiQueue[d].deviceStates.targetState
             ELSE /\ apiQueue'[d].deviceStates.targetState
                       = (IF lastOp'.value = 0 THEN "standby" ELSE "active")
                  /\ apiQueue'[d].deviceStates.targetTemperatureC
                       = apiQueue[d].deviceStates.targetTemperatureC]_vars

\* A mode has just been enqueued for a device whose desired temperature was
\* set before, while an item is pending.
C27_Witness ==
  /\ lastOp.op = "enqueue"
  /\ lastOp.type = "state"
  /\ apiQueue[1].deviceStates.targetTemperatureC # NoTemp
  /\ apiQueue[1].deviceStates.targetState = targetStateOf(lastOp.value)
  /\ apiQueue[1].queue # <<>>

\* The step is a verification of d comparing a status it obtained.
VerifyStep(d) == lastOp'.op = "verify" /\ lastOp'.id = d

\* The fields of d's desired state that mismatch the status st.
TemperatureMismatch(d, st) ==
  /\ apiQueue[d].deviceStates.targetTemperatureC # NoTemp
  /\ \/ st.set_temperature_c - apiQueue[d].deviceStates.targetTemperatureC
          > Tolerance
     \/ apiQueue[d].deviceStates.targetTemperatureC - st.set_temperature_c
          > Tolerance

ModeMismatch(d, st) ==
  /\ apiQueue[d].deviceStates.targetState # "undefined"
  /\ st.thermal_control_status # apiQueue[d].deviceStates.targetState

\* After the step an item of the type with the value, enqueued now, is
\* pending or has just been dispatched.
Reenqueued(d, type, v) ==
  LET item == [id |-> d, type |-> type, value |-> v, timestamp |-> now]
  IN \/ \E i \in DOMAIN apiQueue'[d].queue : apiQueue'[d].queue[i] = item
     \/ apiQueue'[d].pc = "send" /\ apiQueue'[d].current = item

\* The step adds no item of the type: the pending ones were pending before
\* and the item in flight, if of the type, was in flight before.
NoneAdded(d, type) ==
  /\ \A i \in DOMAIN apiQueue'[d].queue :
       apiQueue'[d].queue[i].type = type
       => \E j \in DOMAIN apiQueue[d].queue :
            apiQueue[d].queue[j] = apiQueue'[d].queue[i]
  /\ apiQueue'[d].current.type = type
       => apiQueue'[d].current = apiQueue[d].current

\* C28: a verification that compares a status re-enqueues the desired
\* temperature exactly when it is set and differs from the reported one by
\* more than the tolerance, and the desired mode exactly when it is set and
\* differs from the reported one; when neither mismatches it leaves queue,
\* runner and desired values as they are and schedules no verification.
C28_ReenqueueExactlyOnMismatch ==
  [][\A d \in Devices :
       VerifyStep(d)
       => LET st == lastOp'.status
              desired == apiQueue[d].deviceStates
          IN /\ IF TemperatureMismatch(d, st)
                THEN Reenqueued(d, "temperature", desired.targetTemperatureC)
                ELSE NoneAdded(d, "temperature")
             /\ IF ModeMismatch(d, st)
                THEN Reenqueued(d, "state",
                       IF desired.targetState = "standby" THEN 0 ELSE 1)
                ELSE NoneAdded(d, "state")
             /\ IF TemperatureMismatch(d, st) \/ ModeMismatch(d, st)
                THEN apiQueue'[d].timers = <<now + verificationDelayMs>>
                ELSE /\ apiQueue'[d].timers \in {<<>>, apiQueue[d].timers}
                     /\ apiQueue'[d].queue = apiQueue[d].queue
                     /\ apiQueue'[d].current = apiQueue[d].current
                     /\ apiQueue'[d].pc = apiQueue[d].pc
                     /\ apiQueue'[d].deviceStates.targetTemperatureC
                          = desired.targetTemperatureC
                     /\ apiQueue'[d].deviceStates.targetState
                          = desired.targetState]_vars

\* A verification has just found the temperature matching and the mode not:
\* it re-enqueued the mode only.
C28_Witness ==
  /\ lastOp.op = "verify"
  /\ apiQueue[1].deviceStates.targetTemperatureC
       = lastOp.status.set_temperature_c
  /\ apiQueue[1].deviceStates.targetState # "undefined"
  /\ apiQueue[1].deviceStates.targetState
       # lastOp.status.thermal_control_status
  /\ apiQueue[1].timers = <<now + verificationDelayMs>>
  /\ apiQueue[1].pc = "send"
  /\ apiQueue[1].current.type = "state"
  /\ apiQueue[1].queue = <<>>

\* The step in which a fetch awaited by a verification of d is answered
\* with null (it failed and no value was cached).
RefreshReturnsAbsent(d) ==
  \E p \in Pending(d) :
    /\ Awaiting(d, p) > 0
    /\ fetches'[d][p].state = "fulfilled"
    /\ fetches'[d][p].result = Absent

\* C29: when the refresh a verification awaits returns null, the
\* verification ends, awaiting nothing more and comparing nothing: the
\* queue, the runner, the desired state and the timers are as before.
C29_AbsentRefreshEndsVerification ==
  [][\A d \in Devices :
       RefreshReturnsAbsent(d)
       => /\ apiQueue'[d] = apiQueue[d]
          /\ verifying'[d] = SelectSeq(verifying[d],
                                       LAMBDA x : ~Settled(fetches'[d][x]))
          /\ lastOp'.op # "verify"]_vars

\* A verification's refresh has returned null while a desired temperature
\* is set: nothing is pending, in flight or scheduled.
C29_Witness ==
  /\ lastSettled[1] # 0
  /\ fetches[1][lastSettled[1]].state = "fulfilled"
  /\ fetches[1][lastSettled[1]].result = Absent
  /\ apiQueue[1].deviceStates.targetTemperatureC # NoTemp
  /\ verifying[1] = <<>>
  /\ apiQueue[1].timers = <<>>
  /\ apiQueue[1].queue = <<>>
  /\ apiQueue[1].pc = "idle"

C31_ReconciliationUnbounded ==
  [][\A d \in Devices :
       (/\ VerifyStep(d)
        /\ \/ TemperatureMismatch(d, lastOp'.status)
           \/ ModeMismatch(d, lastOp'.status))
       => /\ apiQueue'[d].timers = <<now + verificationDelayMs>>
          /\ apiQueue'[d].deviceStates.verificationTimerId
               = now + verificationDelayMs
          /\ apiQueue'[d].processing
          /\ apiQueue'[d].pc \in {"wait", "send", "backoff", "immediate"}
          /\ \/ \E i \in DOMAIN apiQueue'[d].queue :
                  apiQueue'[d].queue[i].timestamp = now
             \/ /\ apiQueue'[d].pc = "send"
                /\ apiQueue'[d].current.timestamp = now]_vars

\* The second verification in a row has found a mismatch, re-dispatched the
\* write and scheduled a third.
C31_Witness ==
  /\ lastOp.op = "verify"
  /\ Len(fetches[1]) = 2
  /\ \A p \in DOMAIN fetches[1] : fetches[1][p].ok
  /\ now = StartTime + verificationDelayMs
  /\ apiQueue[1].lastProcessTime = StartTime
  /\ apiQueue[1].pc = "send"
  /\ apiQueue[1].current.timestamp = now
  /\ apiQueue[1].timers = <<now + verificationDelayMs>>

\* The runner of d's queue is suspended at one of its four awaits.
RunnerWaiting(Q) ==
  \/ Q.pc = "wait" /\ Q.wakeAt # NoTime /\ Q.current = NoItem
  \/ Q.pc = "send" /\ Q.current # NoItem
  \/ Q.pc = "backoff" /\ Q.wakeAt # NoTime /\ Q.current # NoItem
  \/ Q.pc = "immediate" /\ Q.current = NoItem

\* C32: between steps, a queue that holds a pending item has processing set
\* and its runner suspended on the interval gate, a gateway call, a retry
\* backoff or its scheduled continuation; the flag is set exactly while a
\* runner exists, and an enqueue or a verification that finds the flag set
\* leaves that runner as it is, so no second runner is ever started.
C32_NoLostWakeup ==
  /\ [](\A d \in Devices :
          /\ apiQueue[d].queue # <<>>
               => apiQueue[d].processing /\ RunnerWaiting(apiQueue[d])
          /\ apiQueue[d].processing <=> apiQueue[d].pc # "idle"
          /\ apiQueue[d].pc # "idle" => RunnerWaiting(apiQueue[d]))
  /\ [][\A d \in Devices :
          (/\ apiQueue[d].processing
           /\ lastOp'.op \in {"enqueue", "verify"}
           /\ lastOp'.id = d)
          => /\ apiQueue'[d].pc = apiQueue[d].pc
             /\ apiQueue'[d].wakeAt = apiQueue[d].wakeAt
             /\ apiQueue'[d].current = apiQueue[d].current
             /\ apiQueue'[d].retries = apiQueue[d].retries
             /\ apiQueue'[d].processing]_vars

\* An enqueue has just found the runner in a retry backoff and left its item
\* pending behind it.
C32_Witness ==
  /\ lastOp.op = "enqueue"
  /\ ~lastOp.idle
  /\ apiQueue[1].queue # <<>>
  /\ apiQueue[1].processing
  /\ apiQueue[1].pc = "backoff"

\* The runner of d's queue waits for a timeout that lies beyond the modelled
\* stretch of time.
RunnerStalled(d) ==
  /\ apiQueue[d].pc \in {"wait", "backoff"}
  /\ ClockStopped

\* The queue of d is empty and its dispatch loop idle.
Drained(d) ==
  /\ apiQueue[d].queue = <<>>
  /\ ~apiQueue[d].processing
  /\ apiQueue[d].pc = "idle"

\* C33: with the gateway answering every call and the enqueues bounded, a
\* dispatch loop that is running eventually finds its queue empty and goes
\* idle; until then a pending item leaves the queue only by being dispatched
\* or by being replaced by a later enqueue for its key.
C33_DrainLiveness ==
  /\ [][\A d \in Devices : \A i \in DOMAIN apiQueue[d].queue :
          LET it == apiQueue[d].queue[i]
          IN \/ MapHas(apiQueue'[d].queue, it)
                /\ \A j \in DOMAIN apiQueue'[d].queue :
                     (/\ SameKey(apiQueue'[d].queue[j], it)
                      /\ apiQueue'[d].queue[j] # it)
                     => /\ lastOp'.op \in {"enqueue", "verify"}
                        /\ apiQueue'[d].queue[j].timestamp = now
             \/ /\ ~MapHas(apiQueue'[d].queue, it)
                /\ apiQueue'[d].pc = "send"
                /\ apiQueue'[d].current = it]_vars
  /\ \A d \in Devices :
       apiQueue[d].processing ~> (Drained(d) \/ RunnerStalled(d))

\* Both modes the consumer set have gone out, the second after the interval
\* gate, and the loop is idle on an empty queue.
C33_Witness ==
  /\ Drained(1)
  /\ sets[1] = MaxSets
  /\ apiQueue[1].lastProcessTime >= StartTime + intervalMs
  /\ apiQueue[1].error = "none"

\* What the consumer asked of d: the target values of its desired state.
TargetValues(Q) ==
  IF Q.deviceStates = NoState THEN <<NoTemp, "undefined">>
  ELSE <<Q.deviceStates.targetTemperatureC, Q.deviceStates.targetState>>

\* C34: a step of verifyDeviceState leaves the target temperature and the
\* target mode of the desired state as they were, and every item it
\* enqueues carries the target temperature itself, or 0 for standby and 1
\* for active, which map back to the target mode.
C34_VerificationKeepsTargets ==
  [][\A d \in Devices :
       VerifyStep(d)
       => /\ TargetValues(apiQueue'[d]) = TargetValues(apiQueue[d])
          /\ \A it \in {apiQueue'[d].queue[i] : i \in DOMAIN apiQueue'[d].queue}
                         \cup {apiQueue'[d].current} :
               (it # NoItem /\ it.timestamp = now
                  /\ (it \notin {apiQueue[d].queue[i] :
                                   i \in DOMAIN apiQueue[d].queue}
                               \cup {apiQueue[d].current}))
               => IF it.type = "temperature"
                  THEN it.value = apiQueue[d].deviceStates.targetTemperatureC
                  ELSE /\ it.value
                            = (IF apiQueue[d].deviceStates.targetState
                                    = "standby" THEN 0 ELSE 1)
                       /\ targetStateOf(it.value)
                            = apiQueue[d].deviceStates.targetState]_vars

\* The consumer asked for the active mode with value 3; a later verification
\* found standby reported and its re-enqueued item, value 1, is in flight
\* with the target mode still active.
C34_Witness ==
  /\ lastOp.op = "verify"
  /\ lastOp.id = 1
  /\ lastOp.status # Absent
  /\ lastOp.status.thermal_control_status = "standby"
  /\ apiQueue[1].deviceStates.targetState = "active"
  /\ apiQueue[1].pc = "send"
  /\ apiQueue[1].current.type = "state"
  /\ apiQueue[1].current.value = 1
  /\ apiQueue[1].current.timestamp = now

\* A verification of d that was waiting for its refresh resumes in this
\* step with a status.
VerificationResumes(d) ==
  /\ VerifyStep(d)
  /\ verifying[d] # <<>>
  /\ verifying'[d] # verifying[d]

\* The step before, the consumer set d's target temperature for the first
\* time: of its two calls so far the other one set the mode.
FirstTemperatureJustSet(d) ==
  /\ lastOp.op = "enqueue"
  /\ lastOp.id = d
  /\ lastOp.type = "temperature"
  /\ sets[d] = 2
  /\ apiQueue[d].deviceStates.targetState # "undefined"
  /\ apiQueue[d].deviceStates.targetTemperatureC = lastOp.value

C36_ReplacementTakesNewTimestamp ==
  [][\A d \in Devices :
       /\ \A i \in DOMAIN apiQueue[d].queue :
          \A j \in DOMAIN apiQueue'[d].queue :
            (/\ SameKey(apiQueue'[d].queue[j], apiQueue[d].queue[i])
             /\ apiQueue'[d].queue[j] # apiQueue[d].queue[i])
            => /\ apiQueue'[d].queue[j].timestamp = now
               /\ apiQueue'[d].queue[j].timestamp
                    >= apiQueue[d].queue[i].timestamp
               /\ lastOp'.op \in {"enqueue", "verify"}
       /\ (Dispatches(d) /\ lastOp'.op = "other")
          => \E k \in DOMAIN apiQueue[d].queue :
               /\ apiQueue'[d].current = apiQueue[d].queue[k]
               /\ \A i \in DOMAIN apiQueue[d].queue :
                    /\ apiQueue[d].queue[i].timestamp
                         >= apiQueue[d].queue[k].timestamp
                    /\ i < k => apiQueue[d].queue[i].timestamp
                                  > apiQueue[d].queue[k].timestamp]_vars

\* The mode, first in the map and pending since before the temperature, has
\* just been set again: it now carries the later timestamp, and the
\* temperature behind it in the map is the older of the two.
C36_Witness ==
  /\ lastOp.op = "enqueue"
  /\ lastOp.replaced
  /\ lastOp.type = "state"
  /\ Len(apiQueue[1].queue) = 2
  /\ apiQueue[1].queue[1].type = "state"
  /\ apiQueue[1].queue[1].value = lastOp.value
  /\ apiQueue[1].queue[1].timestamp = now
  /\ apiQueue[1].queue[2].type = "temperature"
  /\ apiQueue[1].queue[2].timestamp < now
  /\ apiQueue[1].queue[2].timestamp > StartTime - 1

====
